---- MODULE Spec2Model ----
(***************************************************************************)
(* The job dispatch pipeline of ffmpeg-api: the task table and the queue   *)
(* (api/ffmpeg_router.py, api/task_queue.py), the worker loop and its two  *)
(* handlers (api/task_worker.py), and the executor's success/failure       *)
(* protocol (api/ffmpeg_executor.py).                                      *)
(*                                                                         *)
(* Granularity: every `await` on an external collaborator (queue get,      *)
(* HTTP fetch, subprocess) ends an action; the synchronous code that       *)
(* follows it, including the blocking S3 upload and the inlined publish    *)
(* loop, belongs to the same action, as in the single asyncio event loop.  *)
(***************************************************************************)
EXTENDS Integers, Sequences, FiniteSets, TLC

\* ---------------------------------------------------------------- bounds
MaxTasks == 2
MaxSubs == 2
MaxSpaces == 1
MaxIndex == 3

\* ------------------------------------------------------------- constants
NumWorkers == 2
Workers == 0..(NumWorkers - 1)

PENDING == "pending"
RUNNING == "running"
COMPLETED == "completed"
FAILED == "failed"
TaskStatus == {PENDING, RUNNING, COMPLETED, FAILED}

TASK_STARTED == "task_started"
TASK_COMPLETED == "task_completed"
TASK_FAILED == "task_failed"
TaskEvent == {TASK_STARTED, TASK_COMPLETED, TASK_FAILED}

MERGE_AUDIO_VIDEO == "__MERGE_AUDIO_VIDEO__"

\* Python's Optional: None is the empty set, a value x is the singleton {x}.
None == {}
Some(x) == {x}

\* A dict is the sequence of its <<key, value>> items in insertion order.
Keys(d) == {d[i][1] : i \in 1..Len(d)}

\* Diagnostics (the str(e) of the exceptions, and the executor's messages).
NotInstalledMsg == "FFmpeg is not installed on the system"
FFmpegErrorMsg(error_msg) == "FFmpeg error: " \o error_msg
SpawnErrorMsg == "Failed to execute FFmpeg: <exception>"
FetchErrorMsg == "<httpx error>"
UploadErrorMsg == "<s3 upload error>"
CallbackErrorMsg == "<subscriber exception>"
MissingVideoMsg == "Missing video input for merge-audio-video task"
NoAudioMsg == "No audio files provided for merge-audio-video task"
ProbeErrorMsg == "could not convert string to float"
MergeFailedMsg == "FFmpeg failed to create output file: <stderr or stdout>"

\* The registration requests the model draws from (TaskRegisterRequest):
\* the generic pipeline with two inputs and two outputs, the composite job
\* complete, without video and without audio, and the two requests
\* register_task rejects.
Requests ==
  { [ffmpeg_command |-> "-i {{in_1}} -i {{in_2}} {{out_1}} {{out_2}}",
     input_files |-> << <<"in_1", "u1">>, <<"in_2", "u2">> >>,
     output_files |-> << <<"out_1", "a.mp4">>, <<"out_2", "b.mp4">> >>],
    [ffmpeg_command |-> MERGE_AUDIO_VIDEO,
     input_files |-> << <<"video", "u1">>, <<"audio_0", "u2">> >>,
     output_files |-> << <<"video", "a.mp4">> >>],
    [ffmpeg_command |-> MERGE_AUDIO_VIDEO,
     input_files |-> << <<"audio_0", "u2">> >>,
     output_files |-> << <<"video", "a.mp4">> >>],
    [ffmpeg_command |-> MERGE_AUDIO_VIDEO,
     input_files |-> << <<"video", "u1">> >>,
     output_files |-> << <<"video", "a.mp4">> >>],
    [ffmpeg_command |-> "",
     input_files |-> << >>,
     output_files |-> << <<"out_1", "a.mp4">> >>],
    [ffmpeg_command |-> "-i {{in_1}} out.mp4",
     input_files |-> << <<"in_1", "u1">> >>,
     output_files |-> << >>] }

\* A subscriber is known by what a call of it does.
Callbacks == {"returns", "raises"}

\* ----------------------------------------------------------------- state
VARIABLES
  tasks,            \* _tasks: task_id -> Task (ids 1..Len, in registration order)
  queue,            \* task_queue._queue: the ids of the enqueued Task objects
  callbacks,        \* task_queue._callbacks: event -> list of subscribers
  ffmpeg_installed, \* shutil.which("ffmpeg") is not None, in this environment
  running,          \* TaskWorker.running, per worker
  pc,               \* where each worker's start() coroutine stands
  cur,              \* the task a worker holds (0: none)
  n,                \* the handler's loop counter: len(local_paths), or i
  response,         \* what the API endpoint called last returned
  stop_requested,   \* stop() was called on the worker (observation)
  calls,            \* the subscriber calls of the last publish (observation)
  args,             \* the arguments of a call of FFmpegExecutor.execute
  rendered          \* what that call makes of command_args: command_str after
                    \* the substitution, and rendered, given to the shell

\* The variables of the specifications that look at one component alone.
apart == <<stop_requested, calls, args, rendered>>

vars == <<tasks, queue, callbacks, ffmpeg_installed, running, pc, cur, n,
          response, apart>>

\* No process: execute did not get to process.communicate().
NoProcess == [returncode |-> -1, stderr |-> "", stdout |-> ""]

\* Task.__init__, and the observations the properties are stated over
\* (written by the model, read by no action):
\*   handed     the number of times dequeue returned this task to a worker
\*   events     one entry per publish(event, task): the event, the task's
\*              fields at the call, and whether every subscriber was called
\*   fetched    the inputs fetched into the working area
\*   fetch_failed  a fetch of an input raised
\*   executed   FFmpegExecutor.execute's result: "no", "success", "failure"
\*   process    the process execute waited for: its return code and the
\*              streams communicate() captured (NoProcess: none)
\*   spawned    the processes spawned for the task
\*   uploaded   the storage keys upload_to_s3 was called with, successfully
\*   workdir    the FileManager's temp_dir: "none", "exists", "removed"
\*   cleanups   the calls of FileManager.cleanup
\*   assigned   the values assigned to status, in order
Task(task_id, command, input_files, output_files) ==
  [task_id |-> task_id, command |-> command,
   input_files |-> input_files, output_files |-> output_files,
   status |-> PENDING, output_urls |-> None, error_message |-> None,
   handed |-> 0, events |-> << >>, fetched |-> 0, fetch_failed |-> FALSE,
   executed |-> "no", process |-> NoProcess, spawned |-> 0,
   uploaded |-> << >>,
   workdir |-> "none", cleanups |-> 0, assigned |-> <<PENDING>>]

\* Task.to_response: the TaskResponse of a task.
to_response(task) ==
  [task_id |-> task.task_id, status |-> task.status,
   output_urls |-> task.output_urls, error_message |-> task.error_message]

\* What an endpoint returns: the HTTP status code and the body.
Response(endpoint, status_code, body) ==
  [endpoint |-> endpoint, status_code |-> status_code, body |-> body]

EmptyCommandMsg == "No ffmpeg_command provided"
NoOutputsMsg == "No output_files provided"
NotFoundMsg == "Task not found"

\* No endpoint was called yet, nothing was published, execute was not called.
NoResponse == Response("none", 0, [detail |-> ""])
NoCalls == [event |-> "none", subscribed |-> 0, invoked |-> << >>]
NoArgs == [command_args |-> << >>, input_files |-> << >>,
           output_files |-> << >>, output_path |-> None]

NotRendered == [done |-> FALSE, command_str |-> << >>, full_command |-> << >>]

Init ==
  /\ tasks = << >>
  /\ queue = << >>
  /\ callbacks = [e \in TaskEvent |-> << >>]
  /\ ffmpeg_installed \in BOOLEAN
  /\ running = [w \in Workers |-> FALSE]
  /\ pc = [w \in Workers |-> "init"]
  /\ cur = [w \in Workers |-> 0]
  /\ n = [w \in Workers |-> 0]
  /\ response = NoResponse
  /\ stop_requested = [w \in Workers |-> FALSE]
  /\ calls = NoCalls
  /\ args = NoArgs
  /\ rendered = NotRendered

\* ----------------------------------------------------------- task queue
\* A put that stores the task twice.
enqueue_twice(q, task_id) == Append(Append(q, task_id), task_id)

\* asyncio.Queue.put on the unbounded queue: at the tail, without waiting.
enqueue(q, task_id) == Append(q, task_id)

\* A get that takes the record enqueued last.
dequeue_last(q) == [task |-> q[Len(q)], queue |-> SubSeq(q, 1, Len(q) - 1)]

\* A get that returns the head and leaves it in the queue.
dequeue_peek(q) == [task |-> Head(q), queue |-> q]

\* asyncio.Queue.get on a non-empty queue: the head, and the queue without it.
dequeue(q) == [task |-> Head(q), queue |-> Tail(q)]

NumSubs == Len(callbacks[TASK_STARTED]) + Len(callbacks[TASK_COMPLETED])
           + Len(callbacks[TASK_FAILED])

subscribe(event, callback) ==
  /\ NumSubs < MaxSubs
  /\ callbacks' = [callbacks EXCEPT ![event] = Append(@, callback)]
  /\ UNCHANGED <<tasks, queue, ffmpeg_installed, response, apart, running, pc, cur, n>>

\* The for loop of publish: the callbacks called before the loop ends, which
\* is at the first one that raises (nothing catches it) or after the last.
Invoked(cbs) ==
  IF \E i \in 1..Len(cbs) : cbs[i] = "raises"
  THEN CHOOSE i \in 1..Len(cbs) :
         /\ cbs[i] = "raises"
         /\ \A j \in 1..(i - 1) : cbs[j] # "raises"
  ELSE Len(cbs)

\* publish(event, task): the task with the call recorded, and whether the
\* call raised.
publish(event, task) ==
  LET cbs == callbacks[event]
  IN [task |-> [task EXCEPT !.events = Append(@,
                  [event |-> event, status |-> task.status,
                   output_urls |-> task.output_urls,
                   error_message |-> task.error_message,
                   complete |-> Invoked(cbs) = Len(cbs)])],
      raised |-> \E i \in 1..Len(cbs) : cbs[i] = "raises"]

\* A call of publish(event, task) looked at alone: the subscribers it finds
\* and the calls it makes, each call <<event, i>> for the i-th subscriber of
\* the event in the order of subscription.
Publish(event) ==
  /\ calls' = [event |-> event, subscribed |-> Len(callbacks[event]),
               invoked |-> [i \in 1..Invoked(callbacks[event]) |-> <<event, i>>]]
  /\ UNCHANGED <<tasks, queue, callbacks, ffmpeg_installed, running, pc, cur, n,
                 response, stop_requested, args, rendered>>

\* ---------------------------------------------------------- file manager
get_file_manager(task) == [task EXCEPT !.workdir = "exists"]

cleanup(task) == [task EXCEPT !.workdir = "removed", !.cleanups = @ + 1]

\* -------------------------------------------------------------- register
\* A registration without the two runtime checks.
register_task_unchecked(request) ==
  /\ Len(tasks) < MaxTasks
  /\ LET task_id == Len(tasks) + 1
         task == Task(task_id, request.ffmpeg_command,
                      request.input_files, request.output_files)
     IN /\ tasks' = Append(tasks, task)
        /\ queue' = enqueue(queue, task_id)
        /\ response' = Response("register_task", 200, to_response(task))
  /\ UNCHANGED <<callbacks, ffmpeg_installed, apart, running, pc, cur, n>>

\* POST /tasks/register
register_task(request) ==
  /\ Len(tasks) < MaxTasks
  /\ IF request.ffmpeg_command = ""
     THEN /\ response' = Response("register_task", 400, [detail |-> EmptyCommandMsg])
          /\ UNCHANGED <<tasks, queue>>
     ELSE IF request.output_files = << >>
     THEN /\ response' = Response("register_task", 400, [detail |-> NoOutputsMsg])
          /\ UNCHANGED <<tasks, queue>>
     ELSE LET task_id == Len(tasks) + 1
              task == Task(task_id, request.ffmpeg_command,
                           request.input_files, request.output_files)
          IN /\ tasks' = Append(tasks, task)
             /\ queue' = enqueue(queue, task_id)
             /\ response' = Response("register_task", 200, to_response(task))
  /\ UNCHANGED <<callbacks, ffmpeg_installed, apart, running, pc, cur, n>>

\* A lookup that knows a task only until a worker has taken it.
check_task_status_pending(task_id) ==
  /\ response' = IF task_id \notin 1..Len(tasks) \/ tasks[task_id].status # PENDING
                 THEN Response("check_task_status", 404, [detail |-> NotFoundMsg])
                 ELSE Response("check_task_status", 200, to_response(tasks[task_id]))
  /\ UNCHANGED <<tasks, queue, callbacks, ffmpeg_installed, apart, running, pc, cur, n>>

\* GET /tasks/{task_id}
check_task_status(task_id) ==
  /\ response' = IF task_id \notin 1..Len(tasks)
                 THEN Response("check_task_status", 404, [detail |-> NotFoundMsg])
                 ELSE Response("check_task_status", 200, to_response(tasks[task_id]))
  /\ UNCHANGED <<tasks, queue, callbacks, ffmpeg_installed, apart, running, pc, cur, n>>

\* A size that also counts the records the workers hold.
size_unfinished(q) == Len(q) + Cardinality({w \in Workers : cur[w] # 0})

\* TaskQueue.size
size(q) == Len(q)

\* GET /queue/size
get_queue_size ==
  /\ response' = Response("get_queue_size", 200, [queue_size |-> size(queue)])
  /\ UNCHANGED <<tasks, queue, callbacks, ffmpeg_installed, apart, running, pc, cur, n>>

\* ------------------------------------------------------------ the worker
\* task.status = status
set_status(task, status) ==
  [task EXCEPT !.status = status, !.assigned = Append(@, status)]

\* process_task's except block: the task is marked FAILED with str(e) and
\* task_failed is published, outside any try.
except_Exception(task, e) ==
  publish(TASK_FAILED, [set_status(task, FAILED) EXCEPT
                          !.error_message = Some(e)])

\* A handler table in which nothing was registered.
task_handlers_empty(command) == "None"

\* TaskWorker._task_handlers.get(command)
task_handlers(command) ==
  IF command = MERGE_AUDIO_VIDEO THEN "handle_merge_audio_video" ELSE "None"

\* start(): process_task has ended for worker w, with res.task the task as
\* it left it. An exception that escaped it (res.raised) reaches the outer
\* `except Exception`, which clears running and ends the loop; otherwise
\* the loop tests self.running and waits on the queue again.
Resume(w, res) ==
  /\ tasks' = [tasks EXCEPT ![cur[w]] = res.task]
  /\ cur' = [cur EXCEPT ![w] = 0]
  /\ n' = [n EXCEPT ![w] = 0]
  /\ IF res.raised
     THEN /\ pc' = [pc EXCEPT ![w] = "crashed"]
          /\ running' = [running EXCEPT ![w] = FALSE]
     ELSE /\ pc' = [pc EXCEPT ![w] = IF running[w] THEN "dequeue" ELSE "stopped"]
          /\ UNCHANGED running
  /\ UNCHANGED <<queue, callbacks, ffmpeg_installed, response, apart>>

\* The handler goes on to its next await.
Continue(w, task, next, count) ==
  /\ tasks' = [tasks EXCEPT ![cur[w]] = task]
  /\ pc' = [pc EXCEPT ![w] = next]
  /\ n' = [n EXCEPT ![w] = count]
  /\ UNCHANGED <<queue, callbacks, ffmpeg_installed, response, apart, running, cur>>

\* start(), up to the loop: self.running = True.
start(w) ==
  /\ pc[w] = "init"
  /\ running' = [running EXCEPT ![w] = TRUE]
  /\ pc' = [pc EXCEPT ![w] = "dequeue"]
  /\ UNCHANGED <<tasks, queue, callbacks, ffmpeg_installed, response, apart, cur, n>>

\* stop(): self.running = False, whatever the loop is doing.
stop(w) ==
  /\ running' = [running EXCEPT ![w] = FALSE]
  /\ stop_requested' = [stop_requested EXCEPT ![w] = TRUE]
  /\ UNCHANGED <<tasks, queue, callbacks, ffmpeg_installed, pc, cur, n,
                 response, calls, args, rendered>>

\* wait_for(task_queue.dequeue(), timeout=1.0) returns a task.
Dequeue(w) ==
  /\ pc[w] = "dequeue"
  /\ queue # << >>
  /\ LET got == dequeue(queue)
     IN /\ queue' = got.queue
        /\ cur' = [cur EXCEPT ![w] = got.task]
        /\ tasks' = [tasks EXCEPT ![got.task].handed = @ + 1]
  /\ pc' = [pc EXCEPT ![w] = "process_task"]
  /\ UNCHANGED <<callbacks, ffmpeg_installed, response, apart, running, n>>

\* wait_for times out on the empty queue: `continue`, the loop condition.
Timeout(w) ==
  /\ pc[w] = "dequeue"
  /\ queue = << >>
  /\ pc' = [pc EXCEPT ![w] = IF running[w] THEN "dequeue" ELSE "stopped"]
  /\ UNCHANGED <<tasks, queue, callbacks, ffmpeg_installed, response, apart, running, cur, n>>

\* process_task, lines 39-47: RUNNING, publish task_started (outside the
\* try), then the handler is chosen and creates its FileManager.
process_task(w) ==
  /\ pc[w] = "process_task"
  /\ LET task == tasks[cur[w]]
         p == publish(TASK_STARTED, set_status(task, RUNNING))
     IN IF p.raised
        THEN Resume(w, p)
        ELSE Continue(w, get_file_manager(p.task),
                      IF task_handlers(task.command) = "None"
                      THEN "download_files" ELSE "merge_video", 0)

\* ------------------------------------------------- the generic pipeline
\* download_files: one pass of its loop, the fetch of the next input. A
\* fetch that raises leaves download_files and the handler, into
\* process_task's except block.
download_file(task, ok) ==
  IF ok THEN [task EXCEPT !.fetched = @ + 1]
  ELSE [task EXCEPT !.fetch_failed = TRUE]

\* A download loop that swallows the fetch error and goes on.
DownloadFileSwallow(w) ==
  /\ pc[w] = "download_files"
  /\ n[w] < Len(tasks[cur[w]].input_files)
  /\ \E ok \in BOOLEAN :
       Continue(w, download_file(tasks[cur[w]], ok), "download_files", n[w] + 1)

DownloadFile(w) ==
  /\ pc[w] = "download_files"
  /\ n[w] < Len(tasks[cur[w]].input_files)
  /\ \E ok \in BOOLEAN :
       LET task == download_file(tasks[cur[w]], ok)
       IN IF ok
          THEN Continue(w, task, "download_files", n[w] + 1)
          ELSE Resume(w, except_Exception(task, FetchErrorMsg))

\* FFmpegExecutor.execute: (success, error_msg), and whether a process was
\* spawned. outcome is what the subprocess layer does: the process exits
\* with zero, exits with nonzero, or cannot be created.
ExecOutcomes == {"exit_zero", "exit_nonzero", "spawn_error"}

\* The streams (stderr, stdout) a failing process leaves: both written,
\* only stdout written, neither written.
Captured == {<<"err", "out">>, <<"", "out">>, <<"", "">>}

\* The streams of an outcome; of a process that exits with zero they are
\* read by nothing, and one value stands for them.
CapturedOf(outcome) == IF outcome = "exit_nonzero" THEN Captured ELSE {<<"", "">>}

\* Lines 97-113: stdout, stderr = await process.communicate(), then the
\* return code decides.
execute(outcome, captured) ==
  IF ~ffmpeg_installed
  THEN [success |-> FALSE, error_msg |-> NotInstalledMsg, spawned |-> 0,
        process |-> NoProcess]
  ELSE CASE outcome = "exit_zero" ->
              [success |-> TRUE, error_msg |-> "", spawned |-> 1,
               process |-> [returncode |-> 0, stderr |-> captured[1],
                            stdout |-> captured[2]]]
         [] outcome = "exit_nonzero" ->
              [success |-> FALSE,
               error_msg |-> FFmpegErrorMsg(IF captured[1] # "" THEN captured[1]
                                            ELSE captured[2]),
               spawned |-> 1,
               process |-> [returncode |-> 1, stderr |-> captured[1],
                            stdout |-> captured[2]]]
         [] outcome = "spawn_error" ->
              [success |-> FALSE, error_msg |-> SpawnErrorMsg, spawned |-> 0,
               process |-> NoProcess]

\* The storage key and the pre-signed URL upload_to_s3 returns for it.
s3_key(prefix, task_id, filename) == <<prefix, task_id, filename>>
upload_to_s3(key) == <<"presigned", key>>

\* An upload loop that leaves the last output out.
UploadsButLast(task, upload_failure) ==
  LET m == IF upload_failure = 0 THEN Len(task.output_files) - 1
           ELSE upload_failure - 1
  IN [i \in 1..m |->
        <<task.output_files[i][1],
          upload_to_s3(s3_key("ffmpeg-outputs", task.task_id,
                              task.output_files[i][2]))>>]

\* The upload loop, lines 134-139: upload_failure = 0 when every upload
\* returns, k when the k-th raises; the items stored before the loop ends.
Uploads(task, upload_failure) ==
  LET m == IF upload_failure = 0 THEN Len(task.output_files)
           ELSE upload_failure - 1
  IN [i \in 1..m |->
        <<task.output_files[i][1],
          upload_to_s3(s3_key("ffmpeg-outputs", task.task_id,
                              task.output_files[i][2]))>>]

\* handle_default_ffmpeg_task from the return of execute, lines 126-143.
handle_default_ffmpeg_task(task, result, upload_failure) ==
  LET t0 == [task EXCEPT !.spawned = @ + result.spawned,
                         !.process = result.process,
                         !.executed = IF result.success THEN "success"
                                      ELSE "failure"]
  IN IF ~result.success
     THEN LET p == publish(TASK_FAILED,
                     [set_status(t0, FAILED) EXCEPT
                        !.error_message = Some(result.error_msg)])
          IN IF p.raised
             THEN except_Exception(p.task, CallbackErrorMsg)
             ELSE [task |-> cleanup(p.task), raised |-> FALSE]
     ELSE LET urls == Uploads(t0, upload_failure)
              t1 == [t0 EXCEPT !.output_urls = Some(urls),
                               !.uploaded = [i \in 1..Len(urls) |-> urls[i][2][2]]]
          IN IF upload_failure # 0
             THEN except_Exception(t1, UploadErrorMsg)
             ELSE LET p == publish(TASK_COMPLETED, set_status(t1, COMPLETED))
                  IN IF p.raised
                     THEN except_Exception(p.task, CallbackErrorMsg)
                     ELSE [task |-> cleanup(p.task), raised |-> FALSE]

\* Every input is fetched: the output paths, then await execute(...), then
\* the rest of the handler.
Execute(w) ==
  /\ pc[w] = "download_files"
  /\ n[w] = Len(tasks[cur[w]].input_files)
  /\ \E outcome \in ExecOutcomes :
     \E captured \in CapturedOf(outcome) :
     \E upload_failure \in 0..Len(tasks[cur[w]].output_files) :
       Resume(w, handle_default_ffmpeg_task(tasks[cur[w]],
                                            execute(outcome, captured),
                                            upload_failure))

\* --------------------------------------------- the composite merge job
audio_key(i) == "audio_" \o ToString(i)

\* Lines 56-59: the video input, and its fetch.
MergeVideo(w) ==
  /\ pc[w] = "merge_video"
  /\ LET task == tasks[cur[w]]
     IN IF "video" \notin Keys(task.input_files)
        THEN Resume(w, except_Exception(task, MissingVideoMsg))
        ELSE \E ok \in BOOLEAN :
               IF ok
               THEN Continue(w, download_file(task, ok), "merge_audio", 0)
               ELSE Resume(w, except_Exception(download_file(task, ok),
                                               FetchErrorMsg))

\* Lines 62-71: the loop over audio_0, audio_1, ..., one pass.
MergeAudio(w) ==
  /\ pc[w] = "merge_audio"
  /\ LET task == tasks[cur[w]]
     IN IF audio_key(n[w]) \notin Keys(task.input_files)
        THEN IF n[w] = 0
             THEN Resume(w, except_Exception(task, NoAudioMsg))
             ELSE Continue(w, task, "merge_concat", n[w])
        ELSE \E ok \in BOOLEAN :
               IF ok
               THEN Continue(w, download_file(task, ok), "merge_audio", n[w] + 1)
               ELSE Resume(w, except_Exception(download_file(task, ok),
                                               FetchErrorMsg))

\* Lines 72-81: the concat list and the concat process, whose exit code is
\* not looked at.
MergeConcat(w) ==
  /\ pc[w] = "merge_concat"
  /\ LET task == tasks[cur[w]]
     IN \E spawns \in BOOLEAN :
          IF spawns
          THEN Continue(w, [task EXCEPT !.spawned = @ + 1], "merge_probe", n[w])
          ELSE Resume(w, except_Exception(task, SpawnErrorMsg))

\* Lines 82-87: ffprobe, and float() of what it printed.
MergeProbe(w) ==
  /\ pc[w] = "merge_probe"
  /\ LET task == tasks[cur[w]]
     IN \E outcome \in {"duration", "no_duration", "spawn_error"} :
          CASE outcome = "duration" ->
                 Continue(w, [task EXCEPT !.spawned = @ + 1], "merge_run", n[w])
            [] outcome = "no_duration" ->
                 Resume(w, except_Exception([task EXCEPT !.spawned = @ + 1],
                                            ProbeErrorMsg))
            [] outcome = "spawn_error" ->
                 Resume(w, except_Exception(task, SpawnErrorMsg))

\* handle_merge_audio_video from the return of the merge process, lines
\* 98-111. Without ffmpeg the shell's exit code is not zero.
handle_merge_audio_video(task, outcome, upload_ok) ==
  IF outcome = "spawn_error"
  THEN except_Exception(task, SpawnErrorMsg)
  ELSE LET t0 == [task EXCEPT !.spawned = @ + 1,
                              !.executed = IF outcome = "exit_zero"
                                           THEN "success" ELSE "failure"]
       IN IF outcome # "exit_zero"
          THEN except_Exception(cleanup(t0), MergeFailedMsg)
          ELSE IF ~upload_ok
          THEN except_Exception(t0, UploadErrorMsg)
          ELSE LET key == s3_key("youtube-merge", t0.task_id,
                                 t0.output_files[1][2])
                   p == publish(TASK_COMPLETED,
                          set_status([t0 EXCEPT
                                        !.output_urls =
                                          Some(<< <<"video", upload_to_s3(key)>> >>),
                                        !.uploaded = <<key>>],
                                     COMPLETED))
               IN IF p.raised
                  THEN except_Exception(p.task, CallbackErrorMsg)
                  ELSE [task |-> cleanup(p.task), raised |-> FALSE]

MergeRun(w) ==
  /\ pc[w] = "merge_run"
  /\ \E outcome \in ExecOutcomes :
     \E upload_ok \in BOOLEAN :
       /\ outcome = "exit_zero" => ffmpeg_installed
       /\ Resume(w, handle_merge_audio_video(tasks[cur[w]], outcome, upload_ok))

\* --------------------------------------- the executor's command rendering
\* A string is the sequence of its atoms: "{", "}", "'", "/", a white space
\* character (" "), a digit, or a word, which is a longest run of other
\* characters. The regular expressions and the string tests of execute tell
\* characters apart no further than that.
Space == " "
Digits == {"0", "1", "2", "3", "4", "5", "6", "7", "8", "9"}
Spaces(k) == [i \in 1..k |-> Space]

RECURSIVE Flatten(_)
Flatten(strings) ==
  IF strings = << >> THEN << >> ELSE Head(strings) \o Flatten(Tail(strings))

\* dict: d[key]
Lookup(d, key) == d[CHOOSE i \in 1..Len(d) : d[i][1] = key][2]

\* os.path.abspath on POSIX: a relative path is put under the current
\* directory; empty and "." segments go, ".." takes the segment before it.
Cwd == <<"/", "app">>

RECURSIVE Split(_)
Split(path) ==
  IF path = << >> THEN << << >> >>
  ELSE LET rest == Split(Tail(path))
       IN IF Head(path) = "/" THEN << << >> >> \o rest
          ELSE << <<Head(path)>> \o Head(rest) >> \o Tail(rest)

RECURSIVE Resolve(_, _)
Resolve(segments, stack) ==
  IF segments = << >> THEN stack
  ELSE LET seg == Head(segments)
       IN IF seg = << >> \/ seg = <<".">> THEN Resolve(Tail(segments), stack)
          ELSE IF seg = <<"..">>
          THEN Resolve(Tail(segments),
                       IF stack = << >> THEN stack
                       ELSE SubSeq(stack, 1, Len(stack) - 1))
          ELSE Resolve(Tail(segments), Append(stack, seg))

abspath(path) ==
  LET absolute == IF path # << >> /\ Head(path) = "/" THEN path
                  ELSE Cwd \o <<"/">> \o path
      segments == Resolve(Split(absolute), << >>)
  IN IF segments = << >> THEN <<"/">>
     ELSE Flatten([i \in 1..Len(segments) |-> <<"/">> \o segments[i]])

\* shlex.quote: the string itself when every character is safe, else the
\* string between single quotes, each ' of it written '"'"'.
Unsafe == {Space, "{", "}", "'", "\""}

q(path) ==
  IF path = << >> THEN <<"'", "'">>
  ELSE IF \A i \in 1..Len(path) : path[i] \notin Unsafe THEN path
  ELSE <<"'">>
       \o Flatten([i \in 1..Len(path) |->
                     IF path[i] = "'" THEN <<"'", "\"", "'", "\"", "'">>
                     ELSE <<path[i]>>])
       \o <<"'">>

\* pattern = re.compile(r"{{\s*([^}]+)\s*}}"), tried at the start of s: the
\* length of the match (0: none), the text matched and group 1. The first
\* \s* takes the white space after the braces but leaves [^}]+ a character;
\* [^}]+ is greedy and white space is not "}", so group 1 runs up to the
\* closing braces and the second \s* matches nothing.
pattern_match(s) ==
  LET closing == {k \in 3..Len(s) : s[k] = "}"}
      k == CHOOSE c \in closing : \A d \in closing : c <= d
      leading == CHOOSE m \in 0..(k - 4) :
                   /\ \A i \in 3..(2 + m) : s[i] = Space
                   /\ m < k - 4 => s[3 + m] # Space
  IN IF /\ Len(s) >= 5 /\ s[1] = "{" /\ s[2] = "{"
        /\ closing # {} /\ k >= 4 /\ k < Len(s) /\ s[k + 1] = "}"
     THEN [len |-> k + 1, group0 |-> SubSeq(s, 1, k + 1),
           group1 |-> SubSeq(s, 3 + leading, k - 1)]
     ELSE [len |-> 0, group0 |-> << >>, group1 |-> << >>]

\* int() of a string of digits
RECURSIVE int(_)
int(digits) ==
  IF digits = << >> THEN 0
  ELSE 10 * int(SubSeq(digits, 1, Len(digits) - 1))
       + (CHOOSE v \in 0..9 : ToString(v) = digits[Len(digits)])

\* re.fullmatch(r"in_(\d+)", key)
fullmatch_in(key) ==
  /\ Len(key) >= 2 /\ key[1] = "in_"
  /\ \A i \in 2..Len(key) : key[i] \in Digits

\* replace_placeholder, lines 58-78: key = match.group(1), as it is.
replace_placeholder(a, match) ==
  LET key == match.group1
      ordered_inputs == [i \in 1..Len(a.input_files) |->
                           abspath(a.input_files[i][2])]
  IN IF key \in {<<"output_filename">>, <<"output">>, <<"output_path">>}
     THEN IF a.output_path # None
          THEN q(CHOOSE path \in a.output_path : TRUE) ELSE match.group0
     ELSE IF a.output_files # << >> /\ key \in Keys(a.output_files)
     THEN q(Lookup(a.output_files, key))
     ELSE IF fullmatch_in(key)
     THEN LET idx == int(Tail(key)) - 1
          IN IF 0 <= idx /\ idx < Len(ordered_inputs)
             THEN q(ordered_inputs[idx + 1]) ELSE match.group0
     ELSE IF key \in Keys(a.input_files)
     THEN q(abspath(Lookup(a.input_files, key)))
     ELSE match.group0

\* pattern.sub(replace_placeholder, s): the matches from left to right,
\* none overlapping another.
RECURSIVE sub(_, _)
sub(a, s) ==
  IF s = << >> THEN << >>
  ELSE LET match == pattern_match(s)
       IN IF match.len > 0
          THEN replace_placeholder(a, match)
               \o sub(a, SubSeq(s, match.len + 1, Len(s)))
          ELSE <<Head(s)>> \o sub(a, Tail(s))

\* str.strip()
strip(s) ==
  LET inside == {i \in 1..Len(s) : s[i] # Space}
  IN IF inside = {} THEN << >>
     ELSE SubSeq(s, CHOOSE i \in inside : \A j \in inside : i <= j,
                    CHOOSE i \in inside : \A j \in inside : j <= i)

\* The words of the model's templates that contain "output".
OutputWords == {"output", "output_filename", "output_path", "output.mp4"}

\* The words of the model's templates that start with "ffmpeg".
FfmpegWords == {"ffmpeg", "ffmpegthumbnailer"}

\* Lines 87-95 on the substituted command: the legacy append of the single
\* output path, then strip and the ffmpeg prefix.
full_command(a, command_str) ==
  LET appended ==
        IF /\ a.output_files = << >>
           /\ ~\E i \in 1..(Len(a.command_args) - 1) :
                 a.command_args[i] = "{" /\ a.command_args[i + 1] = "{"
           /\ ~\E i \in 1..Len(command_str) : command_str[i] \in OutputWords
           /\ a.output_path # None
           /\ a.output_path # {<< >>}
        THEN command_str \o <<Space>> \o q(CHOOSE path \in a.output_path : TRUE)
        ELSE command_str
      stripped == strip(appended)
  IN IF stripped # << >> /\ Head(stripped) \in FfmpegWords THEN stripped
     ELSE <<"ffmpeg", Space>> \o stripped

\* execute, lines 41-95: without ffmpeg it returns before it renders.
Render ==
  /\ ffmpeg_installed
  /\ ~rendered.done
  /\ LET command_str == sub(args, args.command_args)
     IN rendered' = [done |-> TRUE, command_str |-> command_str,
                     full_command |-> full_command(args, command_str)]
  /\ UNCHANGED <<tasks, queue, callbacks, ffmpeg_installed, running, pc, cur, n,
                 response, stop_requested, calls, args>>

\* ------------------------------------------------------ the whole system
Next ==
  \/ \E request \in Requests : register_task(request)
  \/ \E event \in TaskEvent : \E callback \in Callbacks : subscribe(event, callback)
  \/ \E w \in Workers : start(w)
  \/ \E w \in Workers : Dequeue(w)
  \/ \E w \in Workers : Timeout(w)
  \/ \E w \in Workers : process_task(w)
  \/ \E w \in Workers : DownloadFile(w)
  \/ \E w \in Workers : Execute(w)
  \/ \E w \in Workers : MergeVideo(w)
  \/ \E w \in Workers : MergeAudio(w)
  \/ \E w \in Workers : MergeConcat(w)
  \/ \E w \in Workers : MergeProbe(w)
  \/ \E w \in Workers : MergeRun(w)

Spec == Init /\ [][Next]_vars

\* The worker loops with stop requests: jobs of the generic pipeline, no
\* subscribers, and stop() called on a worker at any point of its life.
NextStop ==
  \/ \E request \in {r \in Requests : r.ffmpeg_command # MERGE_AUDIO_VIDEO} :
       register_task(request)
  \/ \E w \in Workers : start(w)
  \/ \E w \in Workers : stop(w)
  \/ \E w \in Workers : Dequeue(w)
  \/ \E w \in Workers : Timeout(w)
  \/ \E w \in Workers : process_task(w)
  \/ \E w \in Workers : DownloadFile(w)
  \/ \E w \in Workers : Execute(w)

SpecStop == Init /\ [][NextStop]_vars

\* The API with its clients: registrations, status queries for the
\* identifiers registered and for one never registered, queue size queries,
\* and the workers; no subscribers.
QueriedIds == 1..(MaxTasks + 1)

NextApi ==
  \/ \E request \in Requests : register_task(request)
  \/ \E task_id \in QueriedIds : check_task_status(task_id)
  \/ get_queue_size
  \/ \E w \in Workers : start(w)
  \/ \E w \in Workers : Dequeue(w)
  \/ \E w \in Workers : Timeout(w)
  \/ \E w \in Workers : process_task(w)
  \/ \E w \in Workers : DownloadFile(w)
  \/ \E w \in Workers : Execute(w)
  \/ \E w \in Workers : MergeVideo(w)
  \/ \E w \in Workers : MergeAudio(w)
  \/ \E w \in Workers : MergeConcat(w)
  \/ \E w \in Workers : MergeProbe(w)
  \/ \E w \in Workers : MergeRun(w)

SpecApi == Init /\ [][NextApi]_vars

\* The whole system under fair scheduling. The event loop resumes every
\* coroutine that can go on, and every awaited step (the queue's get, a
\* fetch, a process, an upload) returns: each worker's next step is taken
\* if it stays possible. Registrations and subscriptions are the clients'
\* and are not forced.
WorkerStep(w) ==
  \/ start(w)
  \/ Dequeue(w)
  \/ process_task(w)
  \/ DownloadFile(w)
  \/ Execute(w)
  \/ MergeVideo(w)
  \/ MergeAudio(w)
  \/ MergeConcat(w)
  \/ MergeProbe(w)
  \/ MergeRun(w)

SpecLive == Init /\ [][Next]_vars /\ \A w \in Workers : WF_vars(WorkerStep(w))

\* Application startup: lifespan (main.py) and main (worker.py) call
\* run_workers before anything else runs. In pc the startup code has the
\* index after the workers'; until run_workers has created a worker, the
\* worker is "unborn".
App == NumWorkers

\* The parameters of run_workers, and the keywords of the calls: the one
\* both startup codes make, and calls with the function's own parameters.
RunWorkersParams == {"num_workers"}

StartupKeywords ==
  {"num_workers", "s3_bucket", "aws_access_key_id", "aws_secret_access_key",
   "aws_region"}

RunWorkersCalls == {StartupKeywords, {"num_workers"}, {}}

\* The call run_workers(**keywords): a keyword that is no parameter raises
\* TypeError before the body runs, and the startup code ends with it
\* (lifespan lets it out, main logs it and exits). Otherwise the workers
\* are created with the ids 0..num_workers-1 and their start() coroutines
\* are gathered in one task.
run_workers(keywords) ==
  /\ pc[App] = "startup"
  /\ pc' = IF keywords \subseteq RunWorkersParams
           THEN [c \in DOMAIN pc |-> IF c \in Workers THEN "init" ELSE "serving"]
           ELSE [pc EXCEPT ![App] = "TypeError"]
  /\ UNCHANGED <<tasks, queue, callbacks, ffmpeg_installed, running, cur, n,
                 response, apart>>

InitStartup ==
  /\ tasks = << >>
  /\ queue = << >>
  /\ callbacks = [e \in TaskEvent |-> << >>]
  /\ ffmpeg_installed \in BOOLEAN
  /\ running = [w \in Workers |-> FALSE]
  /\ pc = [c \in Workers \cup {App} |-> IF c = App THEN "startup" ELSE "unborn"]
  /\ cur = [w \in Workers |-> 0]
  /\ n = [w \in Workers |-> 0]
  /\ response = NoResponse
  /\ stop_requested = [w \in Workers |-> FALSE]
  /\ calls = NoCalls
  /\ args = NoArgs
  /\ rendered = NotRendered

\* The API serves a registration once startup has returned (the yield of
\* lifespan).
Serve(request) ==
  /\ pc[App] = "serving"
  /\ register_task(request)

\* Startup, then the API and the workers; jobs of the generic pipeline, no
\* subscribers.
NextStartup ==
  \/ \E keywords \in RunWorkersCalls : run_workers(keywords)
  \/ \E request \in {r \in Requests : r.ffmpeg_command # MERGE_AUDIO_VIDEO} :
       Serve(request)
  \/ \E w \in Workers : start(w)
  \/ \E w \in Workers : Dequeue(w)
  \/ \E w \in Workers : Timeout(w)
  \/ \E w \in Workers : process_task(w)
  \/ \E w \in Workers : DownloadFile(w)
  \/ \E w \in Workers : Execute(w)

\* Fair scheduling: the startup code runs, and so does every worker.
SpecStartup ==
  /\ InitStartup /\ [][NextStartup]_vars
  /\ WF_vars(\E keywords \in RunWorkersCalls : run_workers(keywords))
  /\ \A w \in Workers : WF_vars(WorkerStep(w))

\* The event bus alone: subscriptions and publishes.
NextPublish ==
  \/ \E event \in TaskEvent : \E callback \in Callbacks : subscribe(event, callback)
  \/ \E event \in TaskEvent : Publish(event)

SpecPublish == Init /\ [][NextPublish]_vars

\* The calls of execute the rendering is looked at with. A placeholder is
\* written with up to MaxSpaces white space characters on each side of its
\* key; the positional keys go from in_0 to in_<MaxIndex>.
Written(key, l, r) ==
  <<"{", "{">> \o Spaces(l) \o key \o Spaces(r) \o <<"}", "}">>

in_(k) == <<"in_", ToString(k)>>

TemplateKeys ==
  {in_(k) : k \in 0..MaxIndex}
    \cup {<<"out_", "1">>, <<"out_", "2">>, <<"output_filename">>, <<"output">>,
          <<"video">>, <<"nope">>}

\* The text before and after the placeholder of a template.
Before == {<< >>, <<"-i", Space>>}
After == {<< >>, <<Space, "-y">>}

Templates ==
  {pre \o Written(key, l, r) \o post :
     pre \in Before, key \in TemplateKeys,
     l \in 0..MaxSpaces, r \in 0..MaxSpaces, post \in After}
    \cup {<<"-i", Space>> \o Written(in_(1), 0, 0) \o <<Space, "-i", Space>>
            \o Written(in_(2), 0, 0) \o <<Space>> \o Written(<<"out_", "1">>, 0, 0)
            \o <<Space>> \o Written(<<"out_", "2">>, 0, 0),
          <<"-i", Space, "x.mp4">>,
          <<"ffmpeg", Space, "-i", Space, "x.mp4">>,
          <<"ffmpegthumbnailer", Space, "-i", Space, "x.mp4">>,
          <<Space, "-i", Space, "x.mp4", Space, "output.mp4", Space>>}

\* FileManager: temp_dir, and os.path.join(self.temp_dir, filename).
TempDir == <<"/", "tmp", "/", "tmpjob">>

join(dir, filename) ==
  IF filename # << >> /\ Head(filename) = "/" THEN filename
  ELSE dir \o <<"/">> \o filename

\* download_files: the local path of every input key, in the map's order.
local_files(keys) == [i \in 1..Len(keys) |-> <<keys[i], join(TempDir, keys[i])>>]

\* Lines 117-119 of the worker: the local path of every output.
output_local_paths(output_files) ==
  [i \in 1..Len(output_files) |->
     <<output_files[i][1], join(TempDir, output_files[i][2])>>]

\* The input maps, by their keys in order, and the output maps (key,
\* filename) of the jobs: any strings, registration checks none of them.
InputKeys ==
  {<< >>, <<in_(1), in_(2)>>, <<in_(2), in_(1)>>, <<<<"video">>, <<"audio_", "0">>>>,
   <<<<"my", Space, "file">>>>, <<<<"nope", Space>>>>,
   <<<<"/", "etc", "/", "passwd">>>>, <<<<"..", "/", "x.mp4">>>>}

OutputFiles ==
  {<< >>, << <<<<"out_", "1">>, <<"a.mp4">>>> >>,
   << <<<<"out_", "1">>, <<"a.mp4">>>>, <<<<"out_", "2">>, <<"b", Space, "c.mp4">>>> >>,
   << <<in_(1), <<"a.mp4">>>> >>,
   << <<<<"video">>, <<"a.mp4">>>> >>,
   << <<<<"output">>, <<"a.mp4">>>> >>,
   << <<<<"out_", "1">>, <<"..", "/", "a.mp4">>>> >>,
   << <<<<"out_", "1">>, <<"a.mp4">>>>, <<<<"out_", "2">>, <<"a.mp4">>>> >>,
   << <<<<"out_", "1">>, <<"video">>>> >>}

RenderArgs ==
  {[command_args |-> template, input_files |-> local_files(keys),
    output_files |-> output_local_paths(output_files),
    output_path |-> output_path] :
     template \in Templates, keys \in InputKeys, output_files \in OutputFiles,
     output_path \in {None, Some(join(TempDir, <<"out.mp4">>))}}

InitRender ==
  /\ tasks = << >>
  /\ queue = << >>
  /\ callbacks = [e \in TaskEvent |-> << >>]
  /\ ffmpeg_installed \in BOOLEAN
  /\ running = [w \in Workers |-> FALSE]
  /\ pc = [w \in Workers |-> "init"]
  /\ cur = [w \in Workers |-> 0]
  /\ n = [w \in Workers |-> 0]
  /\ response = NoResponse
  /\ stop_requested = [w \in Workers |-> FALSE]
  /\ calls = NoCalls
  /\ args \in RenderArgs
  /\ rendered = NotRendered

NextRender == Render

SpecRender == InitRender /\ [][NextRender]_vars

\* ------------------------------------------------------------ properties
TaskIds == 1..Len(tasks)
Terminal(t) == tasks[t].status \in {COMPLETED, FAILED}
Held(t) == \E w \in Workers : cur[w] = t
\* A worker took the task and process_task has ended for it.
Left(t) == tasks[t].handed > 0 /\ ~Held(t)
Generic(t) == task_handlers(tasks[t].command) = "None"
Occurrences(ids, t) == Cardinality({i \in 1..Len(ids) : ids[i] = t})
EventsOf(t, kinds) ==
  {i \in 1..Len(tasks[t].events) : tasks[t].events[i].event \in kinds}
Populated(optional) == \E d \in optional : Len(d) > 0

\* C1: every registered task is either in the queue, once, or was returned
\* by dequeue, once and to one worker; no two workers hold the same task,
\* at the same time or one after the other.
C1_SingleConsumer ==
  /\ \A t \in TaskIds :
       /\ tasks[t].handed <= 1
       /\ Occurrences(queue, t) + tasks[t].handed = 1
       /\ Cardinality({w \in Workers : cur[w] = t}) <= tasks[t].handed
  /\ \A w \in Workers : cur[w] # 0 => cur[w] \in TaskIds

\* Two workers hold two different tasks at once, each handed out once.
C1_Witness ==
  /\ cur[0] # 0 /\ cur[1] # 0 /\ cur[0] # cur[1]
  /\ pc[0] # "process_task" /\ pc[1] # "process_task"

\* C2: the values assigned to a task's status follow Pending -> Running,
\* Running -> Completed, Running -> Failed; a terminal status is never
\* followed by another status.
C2_StatusTransitions ==
  \A t \in TaskIds :
    \A i \in 1..(Len(tasks[t].assigned) - 1) :
      LET a == tasks[t].assigned[i]
          b == tasks[t].assigned[i + 1]
      IN \/ <<a, b>> \in {<<PENDING, RUNNING>>, <<RUNNING, COMPLETED>>,
                          <<RUNNING, FAILED>>}
         \/ a = b /\ a \in {COMPLETED, FAILED}

\* C3: when process_task has ended for a task that is Completed or Failed,
\* FileManager.cleanup has run on its working area.
C3_CleanupOnEveryExit ==
  \A t \in TaskIds :
    Left(t) /\ Terminal(t) => tasks[t].cleanups >= 1 /\ tasks[t].workdir = "removed"

\* C4: a terminal status is assigned to a task at most once, exactly once
\* for a task a worker has brought to Completed or Failed, and cleanup of
\* its working area runs at most once.
C4_TerminalOnce ==
  \A t \in TaskIds :
    LET sets == Cardinality({i \in 1..Len(tasks[t].assigned) :
                               tasks[t].assigned[i] \in {COMPLETED, FAILED}})
    IN /\ sets <= 1
       /\ Left(t) /\ Terminal(t) => sets = 1
       /\ tasks[t].cleanups <= 1

\* C5: no failure while a job is processed ends a worker's loop.
C5_LoopSurvives == \A w \in Workers : pc[w] # "crashed"

\* C6: every publish calls every subscriber registered for its event.
C6_AllSubscribersRun ==
  \A t \in TaskIds :
    \A i \in 1..Len(tasks[t].events) : tasks[t].events[i].complete

\* C7: task_started is published once, first, with the status Running;
\* then one terminal event, the one of the final status, after the status
\* and the output locations or the error detail are set; never both.
C7_EventProtocol ==
  \A t \in TaskIds :
    LET ev == tasks[t].events
        started == EventsOf(t, {TASK_STARTED})
        completed == EventsOf(t, {TASK_COMPLETED})
        failed == EventsOf(t, {TASK_FAILED})
    IN /\ Cardinality(started) <= 1
       /\ Len(ev) > 0 => ev[1].event = TASK_STARTED /\ ev[1].status = RUNNING
       /\ Cardinality(completed) + Cardinality(failed) <= 1
       /\ Left(t) /\ Terminal(t) =>
            Cardinality(completed) + Cardinality(failed) = 1
       /\ \A i \in completed :
            /\ ev[i].status = COMPLETED /\ ev[i].output_urls # None
            /\ Left(t) => tasks[t].status = COMPLETED
       /\ \A i \in failed :
            /\ ev[i].status = FAILED /\ ev[i].error_message # None
            /\ Left(t) => tasks[t].status = FAILED

\* C8: output locations are populated only on a Completed task, the error
\* detail only on a Failed one.
C8_ResultsMatchStatus ==
  \A t \in TaskIds :
    /\ Populated(tasks[t].output_urls) => tasks[t].status = COMPLETED
    /\ tasks[t].error_message # None => tasks[t].status = FAILED

\* C9: in the generic pipeline the tool runs only after every input was
\* fetched, outputs are uploaded only after the tool succeeded, and a
\* failed fetch leaves the task Failed with no tool run and no upload.
C9_PipelineOrder ==
  \A t \in TaskIds :
    Generic(t) =>
      /\ tasks[t].executed # "no" \/ tasks[t].spawned > 0 =>
           /\ tasks[t].fetched = Len(tasks[t].input_files)
           /\ ~tasks[t].fetch_failed
      /\ tasks[t].uploaded # << >> => tasks[t].executed = "success"
      /\ tasks[t].executed = "failure" =>
           tasks[t].uploaded = << >> /\ tasks[t].status = FAILED
      /\ tasks[t].fetch_failed =>
           /\ tasks[t].status = FAILED
           /\ tasks[t].executed = "no" /\ tasks[t].spawned = 0
           /\ tasks[t].uploaded = << >>

\* A generic task whose second fetch failed after the first succeeded, and
\* another whose tool failed after every input was fetched.
C9_Witness ==
  /\ \E t \in TaskIds :
       Generic(t) /\ tasks[t].fetch_failed /\ tasks[t].fetched = 1
  /\ \E t \in TaskIds :
       Generic(t) /\ tasks[t].executed = "failure" /\ tasks[t].spawned = 1

\* C10: without ffmpeg no input is fetched, no process is spawned and
\* nothing is uploaded, and a task that has reached a terminal status is
\* Failed with the missing-dependency diagnostic.
C10_NotInstalledNoSideEffects ==
  ~ffmpeg_installed =>
    \A t \in TaskIds :
      /\ tasks[t].fetched = 0 /\ tasks[t].spawned = 0
      /\ tasks[t].uploaded = << >>
      /\ Terminal(t) => /\ tasks[t].status = FAILED
                        /\ tasks[t].error_message = Some(NotInstalledMsg)

\* C11: once stop() was requested on a worker its loop condition is false,
\* so the loop ends the next time the condition is evaluated (at the end of
\* the poll interval or of the job in progress), whenever the request came:
\* before the first iteration, during a wait or during a job; and a worker
\* whose loop has ended holds no job.
C11_StopTakesEffect ==
  \A w \in Workers :
    /\ stop_requested[w] => ~running[w]
    /\ pc[w] = "stopped" => cur[w] = 0

\* C12: a registration that succeeds returns the identifier of a record
\* that is in the table, an identifier no other record has, with the status
\* pending; a record is in the queue at most once, is handed to a worker at
\* most once, and is not in the queue again once a worker has taken it, so
\* a Failed one is not processed a second time.
C12_RegisteredOnce ==
  /\ response.endpoint = "register_task" /\ response.status_code = 200 =>
       /\ response.body.task_id \in TaskIds
       /\ response.body.status = PENDING
       /\ response.body.output_urls = None /\ response.body.error_message = None
  /\ \A t \in TaskIds :
       /\ tasks[t].task_id = t
       /\ Occurrences(queue, t) <= 1
       /\ tasks[t].status # PENDING =>
            Occurrences(queue, t) = 0 /\ tasks[t].handed = 1
       /\ tasks[t].status = PENDING /\ tasks[t].handed = 0 =>
            Occurrences(queue, t) = 1

\* The second job is registered while both workers wait on the queue and
\* the first job has Failed: it is the only record in the queue.
C12_Witness ==
  /\ Len(tasks) = 2
  /\ response.endpoint = "register_task" /\ response.status_code = 200
  /\ response.body.task_id = 2
  /\ \A w \in Workers : pc[w] = "dequeue"
  /\ tasks[1].status = FAILED
  /\ queue = <<2>>

\* C13: no step removes a record from the table or changes its identifier;
\* a status query for an identifier that is not in the table answers 404,
\* and one for an identifier in the table answers 200 with the status the
\* record has at that moment.
C13_StatusQuery ==
  [][/\ \A t \in TaskIds :
          t \in 1..Len(tasks') /\ tasks'[t].task_id = tasks[t].task_id
     /\ response' # response /\ response'.endpoint = "check_task_status"
        /\ response'.status_code = 200 =>
          /\ response'.body.task_id \in TaskIds
          /\ response'.body = to_response(tasks'[response'.body.task_id])
     /\ \A task_id \in QueriedIds :
          check_task_status(task_id) =>
            IF task_id \in TaskIds
            THEN /\ response'.status_code = 200
                 /\ response'.body.task_id = task_id
                 /\ response'.body.status = tasks[task_id].status
            ELSE response'.status_code = 404]_vars

\* A status query answered for a job that has Completed, with its output
\* locations, after the worker has left it.
C13_Witness ==
  /\ response.endpoint = "check_task_status" /\ response.status_code = 200
  /\ response.body.status = COMPLETED /\ Populated(response.body.output_urls)
  /\ Left(response.body.task_id)

\* C14: a step that answers a registration with 400 leaves the table and
\* the queue, and so the queue size, as they were; no record with an empty
\* command or an empty output map is ever in the table, and the queue holds
\* only records of the table.
C14_RejectedBeforeStored ==
  [][/\ response' # response /\ response'.endpoint = "register_task"
        /\ response'.status_code = 400 =>
          tasks' = tasks /\ queue' = queue /\ size(queue') = size(queue)
     /\ \A t \in 1..Len(tasks') :
          tasks'[t].command # "" /\ tasks'[t].output_files # << >>
     /\ \A i \in 1..Len(queue') : queue'[i] \in 1..Len(tasks')]_vars

\* A registration with an empty output map was rejected while a record
\* registered before it waits in the queue.
C14_Witness ==
  /\ response = Response("register_task", 400, [detail |-> NoOutputsMsg])
  /\ Len(tasks) = 1 /\ queue = <<1>>

\* C15: the queue holds the records in the order of their registration;
\* every record a worker was handed was registered before every record
\* still in the queue; a registered record no worker was handed is in the
\* queue, however long the queue is; no dequeue returns on the empty queue.
C15_Fifo ==
  /\ \A i, j \in 1..Len(queue) : i < j => queue[i] < queue[j]
  /\ \A t \in TaskIds : \A i \in 1..Len(queue) :
       tasks[t].handed > 0 => t < queue[i]
  /\ \A t \in TaskIds : tasks[t].handed = 0 => Occurrences(queue, t) = 1
  /\ \A w \in Workers : queue = << >> => ~ENABLED Dequeue(w)

\* Two records were registered; the first was handed to a worker, the
\* second is at the head, and a worker waits on the queue.
C15_Witness ==
  /\ Len(tasks) = 2 /\ queue = <<2>>
  /\ tasks[1].handed = 1 /\ tasks[2].handed = 0
  /\ \E w \in Workers : pc[w] = "dequeue"

MergeSteps ==
  {"merge_video", "merge_audio", "merge_concat", "merge_probe", "merge_run"}

C17_NonzeroExitCleansUp ==
  \A t \in TaskIds :
    tasks[t].executed = "failure" /\ tasks[t].spawned > 0
      /\ Left(t) /\ Terminal(t) =>
        /\ tasks[t].status = FAILED
        /\ tasks[t].cleanups >= 1 /\ tasks[t].workdir = "removed"

\* C18: a publish calls the subscribers of its event, all of them, each
\* once, in the order of subscription, and no subscriber of another event.
C18_PublishCallsSubscribers ==
  calls.event # "none" =>
    calls.invoked = [i \in 1..calls.subscribed |-> <<calls.event, i>>]

\* C19: in a rendered template, a placeholder whose key is in_k, and is
\* not a key of the output map (which is looked up first), has become the
\* shell-quoted absolute path of the k-th input in the order of the input
\* map when 1 <= k <= the number of inputs, whatever the input keys are
\* called, and is left as written otherwise; the text around it is kept.
C19_PositionalInput ==
  rendered.done =>
    \A pre \in Before, post \in After, k \in 0..MaxIndex,
       l \in 0..MaxSpaces, r \in 0..MaxSpaces :
      /\ args.command_args = pre \o Written(in_(k), l, r) \o post
      /\ in_(k) \notin Keys(args.output_files)
      => rendered.command_str =
           pre \o (IF 1 <= k /\ k <= Len(args.input_files)
                   THEN q(abspath(args.input_files[k][2]))
                   ELSE Written(in_(k), l, r))
               \o post

\* C20: a placeholder written with white space inside the braces is
\* resolved as the same placeholder written without it: replaced by the
\* same text where that one is replaced, left as written where that one
\* is left.
C20_TrimmedKey ==
  rendered.done =>
    \A pre \in Before, post \in After, key \in TemplateKeys,
       l \in 0..MaxSpaces, r \in 0..MaxSpaces :
      args.command_args = pre \o Written(key, l, r) \o post =>
        LET plain == pre \o Written(key, 0, 0) \o post
            command_str == sub(args, plain)
        IN rendered.command_str =
             IF command_str = plain THEN args.command_args ELSE command_str

OutputAliases == {<<"output_filename">>, <<"output">>, <<"output_path">>}

\* C21: in a rendered template, a placeholder whose key is a key of the
\* output map has become the shell-quoted path of that output, whatever
\* the key is called, also when the key reads in_N or is a key of the
\* input map as well; only an output alias with a default output path
\* given is resolved before it. The text around it is kept.
C21_OutputKey ==
  rendered.done =>
    \A pre \in Before, post \in After, key \in TemplateKeys,
       l \in 0..MaxSpaces, r \in 0..MaxSpaces :
      /\ args.command_args = pre \o Written(key, l, r) \o post
      /\ key \in Keys(args.output_files)
      /\ ~(key \in OutputAliases /\ args.output_path # None)
      => rendered.command_str =
           pre \o q(Lookup(args.output_files, key)) \o post

\* C22: a template whose placeholder has a key that is no output alias, no
\* key of the output map, no in_N and no key of the input map is rendered
\* to itself: the placeholder as written and the text around it.
C22_UnknownKept ==
  rendered.done =>
    \A pre \in Before, post \in After, key \in TemplateKeys,
       l \in 0..MaxSpaces, r \in 0..MaxSpaces :
      /\ args.command_args = pre \o Written(key, l, r) \o post
      /\ key \notin OutputAliases
      /\ key \notin Keys(args.output_files)
      /\ ~fullmatch_in(key)
      /\ key \notin Keys(args.input_files)
      => rendered.command_str = args.command_args

HasPlaceholder(s) ==
  \E i \in 1..Len(s) : pattern_match(SubSeq(s, i, Len(s))).len > 0

\* The string ends with a space and the shell-quoted path.
EndsWithPath(s, path) ==
  LET tail == <<Space>> \o q(path)
  IN Len(s) >= Len(tail) /\ SubSeq(s, Len(s) - Len(tail) + 1, Len(s)) = tail

\* C23: for a template without placeholders and an output map with one
\* entry, the command line ends with the quoted path of that output.
C23_SingleOutputAppended ==
  rendered.done =>
    (~HasPlaceholder(args.command_args) /\ Len(args.output_files) = 1 =>
       EndsWithPath(rendered.full_command, args.output_files[1][2]))

\* The placeholders of a template whose trimmed key is an output alias, by
\* their positions.
OutputPlaceholders(s) ==
  {i \in 1..Len(s) :
     LET match == pattern_match(SubSeq(s, i, Len(s)))
     IN match.len > 0 /\ strip(match.group1) \in OutputAliases}

\* The places of a command line where the quoted path stands.
PathPlaces(s, path) ==
  {i \in 1..Len(s) :
     /\ i + Len(q(path)) - 1 <= Len(s)
     /\ SubSeq(s, i, i + Len(q(path)) - 1) = q(path)}

\* C24: with a default output path, the command line holds the path once
\* for every output placeholder and, exactly when there is no output map
\* and no output placeholder, once more as its last argument.
C24_LegacyAppend ==
  rendered.done /\ args.output_path # None =>
    LET path == CHOOSE o \in args.output_path : TRUE
        placeholders == Cardinality(OutputPlaceholders(args.command_args))
        places == Cardinality(PathPlaces(rendered.full_command, path))
    IN IF args.output_files = << >> /\ placeholders = 0
       THEN places = 1 /\ EndsWithPath(rendered.full_command, path)
       ELSE places = placeholders

\* C25: the first word of the command line is ffmpeg, and the word is added
\* only to a command that does not have it.
C25_FfmpegFirst ==
  rendered.done =>
    /\ rendered.full_command # << >>
    /\ Head(rendered.full_command) = "ffmpeg"
    /\ Cardinality({i \in 1..Len(rendered.full_command) :
                       rendered.full_command[i] = "ffmpeg"})
         = IF Cardinality({i \in 1..Len(rendered.command_str) :
                             rendered.command_str[i] = "ffmpeg"}) = 0
           THEN 1
           ELSE Cardinality({i \in 1..Len(rendered.command_str) :
                               rendered.command_str[i] = "ffmpeg"})

\* C26: execute reports success exactly for a return code of zero, and a
\* job whose process returned nonzero is Failed with the executor's message
\* for the captured stderr, or for stdout when stderr is empty.
C26_ExitCodeDecides ==
  \A t \in TaskIds :
    Generic(t) /\ tasks[t].executed # "no" =>
      /\ tasks[t].executed = "success" <=> tasks[t].process.returncode = 0
      /\ tasks[t].process.returncode > 0 =>
           /\ tasks[t].status = FAILED
           /\ tasks[t].error_message =
                Some(FFmpegErrorMsg(IF tasks[t].process.stderr # ""
                                    THEN tasks[t].process.stderr
                                    ELSE tasks[t].process.stdout))

\* The path, made absolute, names a file below the working area.
Inside(dir, path) ==
  /\ Len(abspath(path)) > Len(dir) + 1
  /\ SubSeq(abspath(path), 1, Len(dir) + 1) = dir \o <<"/">>

\* C27: the local path of every input and the target path of every output
\* that execute is called with lie inside the job's working area.
C27_PathsInsideWorkdir ==
  rendered.done =>
    /\ \A i \in 1..Len(args.input_files) : Inside(TempDir, args.input_files[i][2])
    /\ \A i \in 1..Len(args.output_files) : Inside(TempDir, args.output_files[i][2])

\* Every worker loop has ended.
NoWorker == \A w \in Workers : pc[w] \in {"crashed", "stopped"}

\* C28: under fair scheduling every registered job becomes Completed or
\* Failed, unless no worker loop is left.
C28_EveryJobEnds ==
  \A t \in 1..MaxTasks :
    (t \in TaskIds) ~> ((t \in TaskIds /\ Terminal(t)) \/ NoWorker)

\* C29: every record in the queue is in the table and Pending, and size()
\* is the number of records enqueued and not yet handed to a worker.
C29_QueueHoldsPending ==
  /\ \A i \in 1..Len(queue) :
       queue[i] \in TaskIds /\ tasks[queue[i]].status = PENDING
  /\ size(queue) = Cardinality({t \in TaskIds : tasks[t].handed = 0})

\* One record waits in the queue while another is Running at a worker.
C29_Witness ==
  /\ size(queue) = 1
  /\ \E t \in TaskIds : Held(t) /\ tasks[t].status = RUNNING

\* C30: a Completed job of the generic pipeline has, for every key of its
\* output map and for no other key, the URL the store returned for
\* ffmpeg-outputs/<task_id>/<filename>.
C30_CompletedHasAllOutputs ==
  \A t \in TaskIds :
    Generic(t) /\ tasks[t].status = COMPLETED =>
      tasks[t].output_urls =
        Some([i \in 1..Len(tasks[t].output_files) |->
                <<tasks[t].output_files[i][1],
                  <<"presigned",
                    <<"ffmpeg-outputs", t, tasks[t].output_files[i][2]>>>>>>])

\* A job of the generic pipeline with two outputs is Completed.
C30_Witness ==
  \E t \in TaskIds :
    /\ Generic(t) /\ tasks[t].status = COMPLETED
    /\ Len(tasks[t].output_files) = 2
    /\ Len(tasks[t].uploaded) = 2

\* C31: within one job, two output keys have different target paths and no
\* output's target path is the local path of an input.
C31_DistinctTargets ==
  rendered.done =>
    /\ \A i, j \in 1..Len(args.output_files) :
         i # j => abspath(args.output_files[i][2]) # abspath(args.output_files[j][2])
    /\ \A i \in 1..Len(args.output_files) :
       \A j \in 1..Len(args.input_files) :
         abspath(args.output_files[i][2]) # abspath(args.input_files[j][2])

\* C32: startup gets every worker loop running, and every job registered
\* once the application serves is handed to a worker.
C32_StartupStartsWorkers ==
  /\ <>(\A w \in Workers : running[w])
  /\ \A t \in 1..MaxTasks : (t \in TaskIds) ~> (t \in TaskIds /\ tasks[t].handed > 0)

====
